---- MODULE Spec2Model ----
(***************************************************************************)
(* Model of the bulk contract services of scripts-ajustes:                 *)
(*   ColetaContratos, IsentaContratos, MassiveCancel, ReativaContrato,     *)
(*   MassiveDesc (src/src/services/*.py).                                  *)
(*                                                                         *)
(* Every service reads keys from a CSV, submits per-entity tasks to a      *)
(* ThreadPoolExecutor, collects each future with a timeout and extends     *)
(* self.contratos with what the task returned.  A task is the service's    *)
(* _process_cnpj / _process_contract method: a straight-line sequence of   *)
(* remote calls, each through _make_request.                               *)
(*                                                                         *)
(* A behaviour is one run of process_sync (mode = "pool"), one direct      *)
(* invocation of the per-entity method with a well-formed argument         *)
(* (mode = "call"), or one call of _make_request followed through the      *)
(* session's retries (mode = "request"); in the first two a response is    *)
(* what the session hands back once its retries are over.                  *)
(* The methods are modelled as written, on an object                       *)
(* whose attributes are in place: self.contratos an empty list, no token   *)
(* cached.                                                                 *)
(*                                                                         *)
(* Python values are modelled as records [kind, items]: None, a dict or a  *)
(* list; `not v` is Falsy(v).  The build is Python >= 3.12 (the sources    *)
(* nest the quote character inside f-strings), hence a requests release in *)
(* which response.json() raises requests.exceptions.JSONDecodeError, a     *)
(* RequestException.                                                       *)
(***************************************************************************)
EXTENDS Integers, Sequences, FiniteSets, TLC

VARIABLES
    svc,          \* the service class under run
    mode,         \* "pool": process_sync;  "call": the per-entity method alone
    file,         \* the key column of the input file, row by row
    max_workers,  \* process_sync's max_workers argument
    main,         \* position of the orchestrating thread in process_sync
    keys,         \* the key list the reader produced
    tasks,        \* one record per submitted future / invoked method
    got,          \* per future: how future.result(timeout=30) ended
    contratos,    \* self.contratos, the result table
    access_token, \* ColetaContratos._access_token
    token_expiry, \* ColetaContratos._token_expiry
    now,          \* the wall clock, in seconds
    reader,       \* the backend that produced the key list
    wire,         \* one call of _make_request on the session, attempt by attempt
    out           \* what save_results / save_result did

vars == <<svc, mode, file, max_workers, main, keys, tasks, got, contratos,
          access_token, token_expiry, now, reader, wire, out>>

-----------------------------------------------------------------------------
(* Bounds of the model *)

MaxKeys == 2
MaxRows == 2
MaxItems == 2
MaxWorkers == 2
MaxTicks == 1

Services == {"coleta", "isenta", "cancel", "reativa", "desc"}

\* The key values of the input file and the other columns of the same row.
KeyName == <<"100", "200", "300", "400">>
EcName == <<"E1", "E2", "E3", "E4">>
SerialName == <<"S1", "S2", "S3", "S4">>
KeyIds == 1..MaxKeys

-----------------------------------------------------------------------------
(* Python values *)

None == [kind |-> "None", items |-> <<>>]
Dict(its) == [kind |-> "dict", items |-> its]
List(its) == [kind |-> "list", items |-> its]
Undecodable == [kind |-> "undecodable", items |-> <<>>]
EmptyDict == Dict(<<>>)
SomeDict == Dict(<<[key |-> "message"]>>)

\* `not v` for None, a dict or a list.
Falsy(v) == v.kind = "None" \/ Len(v.items) = 0

SeqsUpTo(S, n) == UNION {[1..m -> S] : m \in 0..n}

\* JSON bodies an endpoint may answer with: an object (empty or not) or a list
\* of items drawn from S.
Bodies(S) == {EmptyDict, SomeDict} \cup {List(s) : s \in SeqsUpTo(S, MaxItems)}

\* What the transport hands back for one request: no response at all
\* (status 0: timeout, connection error), an error status, 204, or 200 with a
\* body that decodes or not.
Responses(S) ==
    {[status |-> st, body |-> None] : st \in {0, 404, 503, 204}}
    \cup {[status |-> 200, body |-> b] : b \in Bodies(S) \cup {Undecodable}}

-----------------------------------------------------------------------------
(* _make_request of IsentaContratos, MassiveCancel, ReativaContrato and      *)
(* MassiveDesc: GET / PUT, raise_for_status, 204 -> {}, else response.json(); *)
(* any RequestException -> None.                                             *)

MakeRequest(resp) ==
    IF resp.status = 0 THEN None
    ELSE IF resp.status >= 400 THEN None
    ELSE IF resp.status = 204 THEN EmptyDict
    ELSE IF resp.body.kind = "undecodable" THEN None
    ELSE resp.body

\* One entry of a task's call log: the request issued, whether the remote
\* accepted it (a 2xx status), whether it answered 204 No Content, and
\* whether _make_request's value was falsy.
Call(m, ep, resp) == [m |-> m, ep |-> ep,
                      ok |-> resp.status >= 200 /\ resp.status < 300,
                      nc |-> resp.status = 204,
                      falsy |-> Falsy(MakeRequest(resp))]

-----------------------------------------------------------------------------
(* Task records *)

\* An element of a returned list: a row (a list of cells) or a bare string.
Row(cells) == [t |-> "row", c |-> cells]
Str(s) == [t |-> "str", c |-> <<s>>]

NoLocals == [r1 |-> None, r2 |-> None, r3 |-> None, r4 |-> None,
             bound |-> {}, l1 |-> <<>>, l2 |-> <<>>, i |-> 0, acc |-> <<>>,
             expires_in |-> 0]

\* argKind "row": the argument is the entity the method expects;
\* "generator": the argument is df.itertuples(index=False).
NewTask(k, argKind, st) ==
    [key |-> k, argKind |-> argKind, st |-> st, pc |-> "start",
     log |-> <<>>, loc |-> NoLocals, ret |-> <<>>, exc |-> ""]

\* The locals of an ended call, of which the record keeps the fan-out lists.
Ended(loc) == [NoLocals EXCEPT !.l1 = loc.l1, !.l2 = loc.l2]

Returned(task, elems) ==
    [task EXCEPT !.st = "returned", !.pc = "end", !.ret = elems, !.loc = Ended(@)]

Raised(task, e) ==
    [task EXCEPT !.st = "raised", !.pc = "end", !.exc = e, !.loc = Ended(@)]

Logged(task, c) == [task EXCEPT !.log = Append(@, c)]

Finished(task) == task.st \in {"returned", "raised"}


\* The columns of the input row of key k.
EC(task) == EcName[task.key]
CONTRATO(task) == KeyName[task.key]
SERIAL(task) == SerialName[task.key]

\* Bodies a PUT endpoint may answer with.
PutItems == {[id |-> "1"]}
PutResponses == Responses(PutItems)

\* for x in v: x.get(...)  raises AttributeError when v is a dict (its
\* elements are its keys, strings).  v is truthy wherever this is asked.
IterGetRaises(v) == v.kind = "dict"

Exists(s, P(_)) == \E j \in 1..Len(s) : P(s[j])

-----------------------------------------------------------------------------
(* MassiveCancel._process_contract *)

ContratoItems(k) == {[cdContrato |-> KeyName[k]], [cdContrato |-> "999"]}
CancelEquipItems == {[ativo |-> TRUE, dataFim |-> "None"],
                     [ativo |-> FALSE, dataFim |-> "2024"]}
NegItems == {[dtFimNegociacao |-> "None"], [dtFimNegociacao |-> "2024"]}
ProtocolItems == {[cdStatus |-> 1], [cdStatus |-> 2]}

CancelRow(task, s1, s2, s3, s4) ==
    <<Str(EC(task)), Str(CONTRATO(task)), Str(s1), Str(s2), Str(s3), Str(s4)>>

\* lines 126-130
CancelAfterGetContrato(task, resp) ==
    LET r == MakeRequest(resp)
        l == Logged(task, Call("GET", "contrato", resp))
    IN IF Falsy(r)
       THEN Returned(l, CancelRow(task, "Nao localizado.", "---", "---", "---"))
       ELSE [l EXCEPT !.pc = "get_contrato_equip", !.loc.r1 = r]

\* lines 131-135
CancelAfterGetContratoEquip(task, resp) ==
    LET r == MakeRequest(resp)
        l == Logged(task, Call("GET", "contrato_equip", resp))
    IN IF Falsy(r)
       THEN Returned(l, CancelRow(task, "Localizado", "Nao localizado", "---", "---"))
       ELSE [l EXCEPT !.pc = "get_neg", !.loc.r2 = r]

\* A negotiation fetch whose failure is taken for "no negotiations".
CancelAfterGetNeg_NoCheck(task, resp) ==
    LET r == MakeRequest(resp)
        l == Logged(task, Call("GET", "neg", resp))
    IN [l EXCEPT !.pc = "get_protocol",
                 !.loc.r3 = IF Falsy(r) THEN List(<<>>) ELSE r]

\* lines 136-140
CancelAfterGetNeg(task, resp) ==
    LET r == MakeRequest(resp)
        l == Logged(task, Call("GET", "neg", resp))
    IN IF Falsy(r)
       THEN Returned(l, CancelRow(task, "Localizado", "Localizado", "Nao localizado", "---"))
       ELSE [l EXCEPT !.pc = "get_protocol", !.loc.r3 = r]

\* lines 148-202: the match loops and the two fan-out lists.  new_contrato
\* and new_equip are assigned only inside a matching iteration.
CancelNegOpen(n) == n.dtFimNegociacao \in {"None", ""}
CancelProtocolOpen(p) == p.cdStatus = 1 \/ p.cdStatus = 0

CancelPrepare(task) ==
    LET loc == task.loc IN
    IF \/ IterGetRaises(loc.r1) \/ IterGetRaises(loc.r2)
       \/ IterGetRaises(loc.r3) \/ IterGetRaises(loc.r4)
    THEN Raised(task, "AttributeError")
    ELSE LET hasC == Exists(loc.r1.items, LAMBDA c : c.cdContrato = CONTRATO(task))
             hasE == Exists(loc.r2.items, LAMBDA e : e.ativo /\ e.dataFim \in {"None", ""})
             negs == SelectSeq(loc.r3.items, CancelNegOpen)
             prots == SelectSeq(loc.r4.items, CancelProtocolOpen)
         IN [task EXCEPT
               !.pc = "put_contrato",
               !.loc = [NoLocals EXCEPT
                   !.bound = (IF hasC THEN {"new_contrato"} ELSE {})
                             \cup (IF hasE THEN {"new_equip"} ELSE {}),
                   !.l1 = [j \in 1..Len(negs) |-> [dtFimNegociacao |-> "data"]],
                   !.l2 = [j \in 1..Len(prots) |-> [cdStatus |-> 2]]]]

\* lines 141-145, then 148-202
CancelAfterGetProtocol(task, resp) ==
    LET r == MakeRequest(resp)
        l == Logged(task, Call("GET", "protocol", resp))
    IN IF Falsy(r)
       THEN Returned(l, CancelRow(task, "Localizado", "Localizado", "Localizado", "Nao localizado"))
       ELSE CancelPrepare([l EXCEPT !.loc.r4 = r])

\* lines 217-222: the protocol loop, then the final row
CancelNextProtocol(task) ==
    IF task.loc.i <= Len(task.loc.l2)
    THEN [task EXCEPT !.pc = "put_protocol"]
    ELSE Returned(task, CancelRow(task, "Atualizado", "Atualizado", "Atualizado", "Atualizado"))

\* lines 215-216: the negotiation loop
CancelNextNeg(task) ==
    IF task.loc.i <= Len(task.loc.l1)
    THEN [task EXCEPT !.pc = "put_neg"]
    ELSE CancelNextProtocol([task EXCEPT !.loc.i = 1])

\* A contract PUT that is sent a second time when it was not accepted.
CancelAfterPutContrato_Again(task, resp) ==
    LET r == MakeRequest(resp)
        l == Logged(task, Call("PUT", "contrato", resp))
    IN IF Falsy(r)
       THEN IF Len(l.log) <= 5
            THEN [l EXCEPT !.pc = "put_contrato"]
            ELSE Returned(l, CancelRow(task, "Erro ao atualizar", "---", "---", "---"))
       ELSE [l EXCEPT !.pc = "put_contrato_equip"]

\* lines 205-209
CancelAfterPutContrato(task, resp) ==
    LET r == MakeRequest(resp)
        l == Logged(task, Call("PUT", "contrato", resp))
    IN IF Falsy(r)
       THEN Returned(l, CancelRow(task, "Erro ao atualizar", "---", "---", "---"))
       ELSE [l EXCEPT !.pc = "put_contrato_equip"]

\* lines 210-214
CancelAfterPutContratoEquip(task, resp) ==
    LET r == MakeRequest(resp)
        l == Logged(task, Call("PUT", "contrato_equip", resp))
    IN IF Falsy(r)
       THEN Returned(l, CancelRow(task, "Atualizado", "Erro ao atualizar", "---", "---"))
       ELSE CancelNextNeg([l EXCEPT !.loc.i = 1])

\* A negotiation loop that gives up at the first PUT that is not accepted.
CancelAfterPutNeg_Abort(task, resp) ==
    LET l == Logged(task, Call("PUT", "neg", resp)) IN
    IF Falsy(MakeRequest(resp))
    THEN Returned(l, CancelRow(task, "Atualizado", "Atualizado", "Erro ao atualizar", "---"))
    ELSE CancelNextNeg([l EXCEPT !.loc.i = @ + 1])

\* line 216: check_update_neg is assigned and never read
CancelAfterPutNeg(task, resp) ==
    CancelNextNeg([Logged(task, Call("PUT", "neg", resp)) EXCEPT !.loc.i = @ + 1])

\* line 218: check_update_protocol is assigned and never read
CancelAfterPutProtocol(task, resp) ==
    CancelNextProtocol([Logged(task, Call("PUT", "protocol", resp)) EXCEPT !.loc.i = @ + 1])

Others == <<svc, mode, file, max_workers, main, keys, got, contratos,
            access_token, token_expiry, now, reader, wire, out>>

At(t, s, pc) ==
    /\ svc = s
    /\ t \in DOMAIN tasks
    /\ tasks[t].st = "running"
    /\ tasks[t].pc = pc

\* line 126.  getattr(row, "EC") is evaluated before the request is made.
CancelGetContrato(t) ==
    /\ At(t, "cancel", "start")
    /\ IF tasks[t].argKind = "generator"
       THEN tasks' = [tasks EXCEPT ![t] = Raised(@, "AttributeError")]
       ELSE \E resp \in Responses(ContratoItems(tasks[t].key)) :
              tasks' = [tasks EXCEPT ![t] = CancelAfterGetContrato(@, resp)]
    /\ UNCHANGED Others

CancelGetContratoEquip(t) ==
    /\ At(t, "cancel", "get_contrato_equip")
    /\ \E resp \in Responses(CancelEquipItems) :
          tasks' = [tasks EXCEPT ![t] = CancelAfterGetContratoEquip(@, resp)]
    /\ UNCHANGED Others

CancelGetNeg(t) ==
    /\ At(t, "cancel", "get_neg")
    /\ \E resp \in Responses(NegItems) :
          tasks' = [tasks EXCEPT ![t] = CancelAfterGetNeg(@, resp)]
    /\ UNCHANGED Others

CancelGetProtocol(t) ==
    /\ At(t, "cancel", "get_protocol")
    /\ \E resp \in Responses(ProtocolItems) :
          tasks' = [tasks EXCEPT ![t] = CancelAfterGetProtocol(@, resp)]
    /\ UNCHANGED Others

\* line 205.  payload=new_contrato is evaluated before the request is made.
CancelPutContrato(t) ==
    /\ At(t, "cancel", "put_contrato")
    /\ IF "new_contrato" \notin tasks[t].loc.bound
       THEN tasks' = [tasks EXCEPT ![t] = Raised(@, "UnboundLocalError")]
       ELSE \E resp \in PutResponses :
              tasks' = [tasks EXCEPT ![t] = CancelAfterPutContrato(@, resp)]
    /\ UNCHANGED Others

\* line 210
CancelPutContratoEquip(t) ==
    /\ At(t, "cancel", "put_contrato_equip")
    /\ IF "new_equip" \notin tasks[t].loc.bound
       THEN tasks' = [tasks EXCEPT ![t] = Raised(@, "UnboundLocalError")]
       ELSE \E resp \in PutResponses :
              tasks' = [tasks EXCEPT ![t] = CancelAfterPutContratoEquip(@, resp)]
    /\ UNCHANGED Others

CancelPutNeg(t) ==
    /\ At(t, "cancel", "put_neg")
    /\ \E resp \in PutResponses :
          tasks' = [tasks EXCEPT ![t] = CancelAfterPutNeg(@, resp)]
    /\ UNCHANGED Others

CancelPutProtocol(t) ==
    /\ At(t, "cancel", "put_protocol")
    /\ \E resp \in PutResponses :
          tasks' = [tasks EXCEPT ![t] = CancelAfterPutProtocol(@, resp)]
    /\ UNCHANGED Others

-----------------------------------------------------------------------------
(* ReativaContrato._process_contract *)

ReativaEquipItems(k) == {[nrSerie |-> SerialName[k]], [nrSerie |-> "S0"]}

ReativaRow(task, s1, s2, s3) ==
    <<Str(EC(task)), Str(CONTRATO(task)), Str(SERIAL(task)), Str(s1), Str(s2), Str(s3)>>

\* line 121: the response is kept and not looked at before the second GET
ReativaAfterGetContrato(task, resp) ==
    [Logged(task, Call("GET", "contrato", resp)) EXCEPT
        !.pc = "get_equip", !.loc.r1 = MakeRequest(resp)]

\* lines 124-173: the not-found check on both responses, the contract match
\* loop (check_found_contrato starts False), the equipment match loop
\* (line 154 annotates check_found_equip and assigns nothing).
ReativaMatch(task) ==
    LET loc == task.loc IN
    IF Falsy(loc.r1) \/ Falsy(loc.r2)
    THEN Returned(task, ReativaRow(task, "n", "---", "---"))
    ELSE IF IterGetRaises(loc.r1) THEN Raised(task, "AttributeError")
    ELSE IF ~Exists(loc.r1.items, LAMBDA c : c.cdContrato = CONTRATO(task))
    THEN Returned(task, ReativaRow(task, "y", "nok", "---"))
    ELSE IF IterGetRaises(loc.r2) THEN Raised(task, "AttributeError")
    ELSE IF ~Exists(loc.r2.items, LAMBDA e : e.nrSerie = SERIAL(task))
    THEN Raised(task, "UnboundLocalError")
    ELSE [task EXCEPT !.pc = "put_contrato",
                      !.loc = [NoLocals EXCEPT
                          !.bound = {"new_contrato", "new_equip", "check_found_equip"}]]

\* line 122, then lines 124-173
ReativaAfterGetEquip(task, resp) ==
    ReativaMatch([Logged(task, Call("GET", "equip", resp)) EXCEPT
                     !.loc.r2 = MakeRequest(resp)])

\* lines 176-181
ReativaAfterPutContrato(task, resp) ==
    LET l == Logged(task, Call("PUT", "contrato", resp)) IN
    IF Falsy(MakeRequest(resp))
    THEN Returned(l, ReativaRow(task, "y", "nok", "nok"))
    ELSE [l EXCEPT !.pc = "put_equip"]

\* lines 183-193
ReativaAfterPutEquip(task, resp) ==
    LET l == Logged(task, Call("PUT", "equip", resp)) IN
    IF Falsy(MakeRequest(resp))
    THEN Returned(l, ReativaRow(task, "y", "---", "nok"))
    ELSE Returned(l, ReativaRow(task, "y", "ok", "ok"))

ReativaGetContrato(t) ==
    /\ At(t, "reativa", "start")
    /\ IF tasks[t].argKind = "generator"
       THEN tasks' = [tasks EXCEPT ![t] = Raised(@, "AttributeError")]
       ELSE \E resp \in Responses(ContratoItems(tasks[t].key)) :
              tasks' = [tasks EXCEPT ![t] = ReativaAfterGetContrato(@, resp)]
    /\ UNCHANGED Others

ReativaGetEquip(t) ==
    /\ At(t, "reativa", "get_equip")
    /\ \E resp \in Responses(ReativaEquipItems(tasks[t].key)) :
          tasks' = [tasks EXCEPT ![t] = ReativaAfterGetEquip(@, resp)]
    /\ UNCHANGED Others

ReativaPutContrato(t) ==
    /\ At(t, "reativa", "put_contrato")
    /\ \E resp \in PutResponses :
          tasks' = [tasks EXCEPT ![t] = ReativaAfterPutContrato(@, resp)]
    /\ UNCHANGED Others

ReativaPutEquip(t) ==
    /\ At(t, "reativa", "put_equip")
    /\ \E resp \in PutResponses :
          tasks' = [tasks EXCEPT ![t] = ReativaAfterPutEquip(@, resp)]
    /\ UNCHANGED Others

-----------------------------------------------------------------------------
(* IsentaContratos._process_contract *)

\* The negotiations of a contract carry distinct codes.
NegName == <<"N1", "N2", "N3", "N4">>
IsentaNegLists == {[j \in 1..n |-> [cdContratoNegociacao |-> NegName[j]]] : n \in 0..MaxItems}
IsentaResponses ==
    {[status |-> st, body |-> None] : st \in {0, 404, 503, 204}}
    \cup {[status |-> 200, body |-> b] :
            b \in {EmptyDict, SomeDict, Undecodable} \cup {List(l) : l \in IsentaNegLists}}

\* settings["valor"], written into every negotiation before its PUT
Valor == "V"

IsentaRow(task, cd, vl, status) == Row(<<CONTRATO(task), cd, vl, status>>)

\* lines 129-141, the head of the for loop: the next negotiation, or return
IsentaNextNeg(task) ==
    IF task.loc.i <= Len(task.loc.l1)
    THEN [task EXCEPT !.pc = "put"]
    ELSE Returned(task, task.loc.acc)

\* lines 123-129.  The not-found branch appends a row and falls through to
\* the for loop: iterating None raises TypeError, iterating a non-empty dict
\* yields its keys and the item assignment on a str raises TypeError.
IsentaAfterGet(task, resp) ==
    LET r == MakeRequest(resp)
        l == Logged(task, Call("GET", "neg", resp))
        nf == Falsy(r) \/ r.kind # "list"
        acc == IF nf
               THEN <<IsentaRow(task, "Nao localizado negociacoes.",
                                "Nao alterado.", "Nao alterado.")>>
               ELSE <<>>
    IN IF r.kind = "None" THEN Raised(l, "TypeError")
       ELSE IF r.kind = "dict" /\ Len(r.items) > 0 THEN Raised(l, "TypeError")
       ELSE IsentaNextNeg([l EXCEPT !.loc.acc = acc, !.loc.i = 1,
                                    !.loc.l1 = IF r.kind = "list" THEN r.items ELSE <<>>])

\* lines 131-139: on a falsy answer the "Nao alterado." row is appended, and
\* the "Alterado." row is appended in every case.
IsentaAfterPut(task, resp) ==
    LET l == Logged(task, Call("PUT", "neg", resp))
        n == task.loc.l1[task.loc.i]
        bad == IF Falsy(MakeRequest(resp))
               THEN <<IsentaRow(task, n.cdContratoNegociacao, Valor, "Nao alterado.")>>
               ELSE <<>>
        good == <<IsentaRow(task, n.cdContratoNegociacao, Valor, "Alterado.")>>
    IN IsentaNextNeg([l EXCEPT !.loc.acc = @ \o bad \o good, !.loc.i = @ + 1])

IsentaGet(t) ==
    /\ At(t, "isenta", "start")
    /\ \E resp \in IsentaResponses :
          tasks' = [tasks EXCEPT ![t] = IsentaAfterGet(@, resp)]
    /\ UNCHANGED Others

IsentaPut(t) ==
    /\ At(t, "isenta", "put")
    /\ \E resp \in PutResponses :
          tasks' = [tasks EXCEPT ![t] = IsentaAfterPut(@, resp)]
    /\ UNCHANGED Others

-----------------------------------------------------------------------------
(* MassiveDesc._process_contract *)

\* lines 123-127.  The else branch subscripts the response with the tuple
\* (contract, "Solicitado cancelamento."): KeyError on a dict (JSON keys are
\* strings), TypeError on a list.  No path reaches a return after it.
DescAfterPut(task, resp) ==
    LET r == MakeRequest(resp)
        l == Logged(task, Call("PUT", "desc", resp))
    IN IF Falsy(r)
       THEN Returned(l, <<Str(CONTRATO(task)), Str("Erro ao solicitar cancelamento.")>>)
       ELSE IF r.kind = "dict" THEN Raised(l, "KeyError")
       ELSE Raised(l, "TypeError")

DescPut(t) ==
    /\ At(t, "desc", "start")
    /\ \E resp \in PutResponses :
          tasks' = [tasks EXCEPT ![t] = DescAfterPut(@, resp)]
    /\ UNCHANGED Others

-----------------------------------------------------------------------------
(* ColetaContratos: the token cache, _make_request, _process_cnpj *)

\* line 119: the lifetime assumed when the token endpoint names none
DefaultExpiresIn == 3600

Cnpj14 == <<"00000000000100", "00000000000200", "00000000000300", "00000000000400">>

\* str(cnpj).zfill(14)
cnpj_formatado(task) == Cnpj14[task.key]

\* Bodies of the token endpoint: an object with or without access_token and
\* expires_in, or something that is no object.  "None" is Python's None.
TokenBody(tok, exp) == Dict(<<[access_token |-> tok, expires_in |-> exp]>>)
TokenResponses ==
    {[status |-> st, body |-> None] : st \in {0, 404, 503, 204}}
    \cup {[status |-> 200, body |-> b] :
            b \in {TokenBody("tok", 0), TokenBody("tok", 2 * DefaultExpiresIn),
                   TokenBody("None", 0), List(<<>>), Undecodable}}

TruthyToken(tok) == tok \notin {"None", ""}

\* lines 92-94: the cache check.  _token_expiry is only ever assigned a float
\* (line 120), and datetime.now() < float raises TypeError.
TokenCheck ==
    IF TruthyToken(access_token) /\ token_expiry # 0
    THEN "TypeError"
    ELSE "refresh"

\* lines 106-116, 125-127: what the POST's answer leads to.
\*   "None": a RequestException was caught, _get_access_token returns None;
\*   "AttributeError": token_data is no dict;  "store": line 116 runs.
TokenAnswer(resp) ==
    IF resp.status = 0 \/ resp.status >= 400 THEN "None"
    ELSE IF resp.status = 204 \/ resp.body.kind = "undecodable" THEN "None"
    ELSE IF resp.body.kind # "dict" THEN "AttributeError"
    ELSE "store"

\* token_data.get("access_token")
TokenOf(resp) == resp.body.items[1].access_token

\* token_data.get("expires_in", 3600)
ExpiresInOf(resp) ==
    IF resp.body.items[1].expires_in = 0 THEN DefaultExpiresIn
    ELSE resp.body.items[1].expires_in

\* lines 166-178: raise_for_status, 204 -> {}, response.json(); a
\* RequestException or a JSONDecodeError -> None.
ColetaMakeRequest(resp) ==
    IF resp.status = 0 \/ resp.status >= 400 THEN None
    ELSE IF resp.status = 204 THEN EmptyDict
    ELSE IF resp.body.kind = "undecodable" THEN None
    ELSE resp.body

EstabItems(k) == {[codigoEc |-> EcName[k], razaoSocial |-> "R"]}
SolucaoItems == {[cdContrato |-> "C1"], [cdContrato |-> "C2"]}

NL == "Nao localizado"

\* lines 199-211
ColetaAfterGetCnpj(task, resp) ==
    LET r == ColetaMakeRequest(resp)
        l == Logged(task, Call("GET", "cnpj", resp))
    IN IF Falsy(r) \/ r.kind # "list"
       THEN Returned(l, <<Row(<<NL, cnpj_formatado(task), NL, NL, NL, NL,
                                NL, NL, NL, NL, NL, NL>>)>>)
       ELSE [l EXCEPT !.pc = "token", !.loc.r1 = r, !.loc.i = 2]

\* lines 219-246: solucao.get raises AttributeError on the keys of a dict
ColetaAfterGetEc(task, resp) ==
    LET r == ColetaMakeRequest(resp)
        l == Logged(task, Call("GET", "ec", resp))
        ec == task.loc.r1.items[1].codigoEc
        razao == task.loc.r1.items[1].razaoSocial
    IN IF Falsy(r)
       THEN Returned(l, <<Row(<<ec, cnpj_formatado(task), razao, NL, NL, NL,
                                NL, NL, NL, NL, NL, NL>>)>>)
       ELSE IF IterGetRaises(r) THEN Raised(l, "AttributeError")
       ELSE Returned(l, [j \in 1..Len(r.items) |->
                Row(<<ec, cnpj_formatado(task), razao, r.items[j].cdContrato,
                      "", "", "", "", "", "", "", "">>)])

\* _make_request -> _get_headers -> _get_access_token, lines 92-112: the
\* cache check and, on a miss, the POST to the token endpoint.  TypeError is
\* caught by none of the callers up to the worker.
ColetaTokenCheck(t) ==
    /\ \/ At(t, "coleta", "start")
       \/ At(t, "coleta", "token")
    /\ tasks' = [tasks EXCEPT ![t] =
            IF TokenCheck = "TypeError" THEN Raised(@, "TypeError")
            ELSE [@ EXCEPT !.pc = "tok_wait",
                           !.loc.i = IF @ = 0 THEN 1 ELSE @]]
    /\ UNCHANGED <<svc, mode, file, max_workers, main, keys, got, contratos,
                   access_token, token_expiry, now, reader, wire, out>>

\* lines 113-116 and 125-127: the answer of the token endpoint.  On None
\* _get_headers raises ValueError (line 138).
ColetaTokenResponse(t) ==
    /\ At(t, "coleta", "tok_wait")
    /\ \E resp \in TokenResponses :
         LET l == Logged(tasks[t], Call("POST", "token", resp)) IN
         CASE TokenAnswer(resp) = "None" ->
                /\ tasks' = [tasks EXCEPT ![t] = Raised(l, "ValueError")]
                /\ UNCHANGED access_token
           [] TokenAnswer(resp) = "AttributeError" ->
                /\ tasks' = [tasks EXCEPT ![t] = Raised(l, "AttributeError")]
                /\ UNCHANGED access_token
           [] TokenAnswer(resp) = "store" ->
                /\ tasks' = [tasks EXCEPT ![t] =
                       [l EXCEPT !.pc = "tok_store",
                                 !.loc.expires_in = ExpiresInOf(resp)]]
                /\ access_token' = TokenOf(resp)
    /\ UNCHANGED <<svc, mode, file, max_workers, main, keys, got, contratos,
                   token_expiry, now, reader, wire, out>>

\* ColetaTokenStore with a _get_headers that does not test the token.
ColetaTokenStore_NoCheck(t) ==
    /\ At(t, "coleta", "tok_store")
    /\ token_expiry' = now + tasks[t].loc.expires_in
    /\ tasks' = [tasks EXCEPT ![t] = [@ EXCEPT !.pc = "get", !.loc.expires_in = 0]]
    /\ UNCHANGED <<svc, mode, file, max_workers, main, keys, got, contratos,
                   access_token, now, reader, wire, out>>

\* lines 119-123, then _get_headers lines 137-138
ColetaTokenStore(t) ==
    /\ At(t, "coleta", "tok_store")
    /\ token_expiry' = now + tasks[t].loc.expires_in
    /\ tasks' = [tasks EXCEPT ![t] =
            IF TruthyToken(access_token)
            THEN [@ EXCEPT !.pc = "get", !.loc.expires_in = 0]
            ELSE Raised(@, "ValueError")]
    /\ UNCHANGED <<svc, mode, file, max_workers, main, keys, got, contratos,
                   access_token, now, reader, wire, out>>

\* ColetaGet in a worker that appends its rows to the shared table itself.
ColetaGet_SharedTable(t) ==
    /\ At(t, "coleta", "get")
    /\ IF tasks[t].loc.i = 1
       THEN \E resp \in Responses(EstabItems(tasks[t].key)) :
              tasks' = [tasks EXCEPT ![t] = ColetaAfterGetCnpj(@, resp)]
       ELSE \E resp \in Responses(SolucaoItems) :
              tasks' = [tasks EXCEPT ![t] = ColetaAfterGetEc(@, resp)]
    /\ contratos' = IF tasks'[t].st = "returned" THEN contratos \o tasks'[t].ret
                    ELSE contratos
    /\ UNCHANGED <<svc, mode, file, max_workers, main, keys, got,
                   access_token, token_expiry, now, reader, wire, out>>

\* lines 160-178 of _make_request, then _process_cnpj up to the next request
ColetaGet(t) ==
    /\ At(t, "coleta", "get")
    /\ IF tasks[t].loc.i = 1
       THEN \E resp \in Responses(EstabItems(tasks[t].key)) :
              tasks' = [tasks EXCEPT ![t] = ColetaAfterGetCnpj(@, resp)]
       ELSE \E resp \in Responses(SolucaoItems) :
              tasks' = [tasks EXCEPT ![t] = ColetaAfterGetEc(@, resp)]
    /\ UNCHANGED Others

\* Time passes.
Tick ==
    /\ svc = "coleta"
    /\ now < DefaultExpiresIn * (1 + MaxTicks)
    /\ \E t \in DOMAIN tasks : ~Finished(tasks[t])
    /\ now' = now + DefaultExpiresIn
    /\ UNCHANGED <<svc, mode, file, max_workers, main, keys, tasks, got,
                   contratos, access_token, token_expiry, reader, wire, out>>

-----------------------------------------------------------------------------
(* The session: the Retry adapter each constructor mounts, and one call of *)
(* _make_request followed attempt by attempt.                              *)

\* Retry(total=3, ...)
RetryTotal == 3

\* status_forcelist
StatusForcelist == {500, 502, 503, 504}

\* session.mount(prefix, adapter): the prefix the Retry adapter serves.
Mount(s) == IF s = "coleta" THEN "https://" ELSE "http://"

\* The scheme of the URL requested: literal in _process_cnpj, read from the
\* settings in the other services.
UrlSchemes(s) == IF s = "coleta" THEN {"https://"} ELSE {"http://", "https://"}

\* The methods the per-entity code passes to _make_request.
Methods(s) ==
    IF s = "coleta" THEN {"GET"}
    ELSE IF s = "desc" THEN {"PUT"}
    ELSE {"GET", "PUT"}

\* Retries the adapter serving the URL grants: the mounted Retry for its own
\* prefix, none from the session's default adapter of the other prefix.
MaxRetries(s, scheme) == IF scheme = Mount(s) THEN RetryTotal ELSE 0

NoWire == [st |-> "none"]

\* A call of _make_request and the remote's behaviour towards it: the first
\* k attempts are answered 503, every later one with final.  token: whether
\* _get_access_token yields a token (ColetaContratos only).
Requests(s) ==
    {[st |-> "call", scheme |-> sch, method |-> m, k |-> k, final |-> f,
      token |-> tk, sent |-> 0, value |-> None, exc |-> ""] :
        sch \in UrlSchemes(s), m \in Methods(s), k \in 0..(RetryTotal + 1),
        f \in PutResponses,
        tk \in IF s = "coleta" THEN BOOLEAN ELSE {TRUE}}

\* The status of the answer to the attempt after `sent` earlier ones.
AnswerStatus(w) == IF w.sent < w.k THEN 503 ELSE w.final.status

\* The adapter retries: a status of the forcelist, and retries left.
Retries(s, w) == AnswerStatus(w) \in StatusForcelist /\ w.sent < MaxRetries(s, w.scheme)

\* What session.get / session.put ends with: the final answer, a 503 handed
\* back by an adapter without retries, or no response (RetryError) once the
\* mounted Retry is exhausted.
Handed(s, w) ==
    IF w.sent >= w.k THEN w.final
    ELSE IF MaxRetries(s, w.scheme) = 0 THEN [status |-> 503, body |-> None]
    ELSE [status |-> 0, body |-> None]

\* The try block is entered; ColetaContratos evaluates self._get_headers()
\* for the headers argument, which raises ValueError without a token.
RequestBegin ==
    /\ mode = "request"
    /\ wire.st = "call"
    /\ wire' = IF svc = "coleta" /\ ~wire.token
               THEN [wire EXCEPT !.st = "raised", !.exc = "ValueError"]
               ELSE [wire EXCEPT !.st = "sending"]
    /\ UNCHANGED <<svc, mode, file, max_workers, main, keys, tasks, got,
                   contratos, access_token, token_expiry, now, reader, out>>

\* One attempt is answered with a forcelist status and the adapter, after
\* its backoff, sends the request again.
RequestRetry ==
    /\ mode = "request"
    /\ wire.st = "sending"
    /\ Retries(svc, wire)
    /\ wire' = [wire EXCEPT !.sent = @ + 1]
    /\ UNCHANGED <<svc, mode, file, max_workers, main, keys, tasks, got,
                   contratos, access_token, token_expiry, now, reader, out>>

\* The session call ends and _make_request returns.
RequestReturn ==
    /\ mode = "request"
    /\ wire.st = "sending"
    /\ ~Retries(svc, wire)
    /\ wire' = [wire EXCEPT !.st = "returned",
                            !.value = IF svc = "coleta"
                                      THEN ColetaMakeRequest(Handed(svc, wire))
                                      ELSE MakeRequest(Handed(svc, wire))]
    /\ UNCHANGED <<svc, mode, file, max_workers, main, keys, tasks, got,
                   contratos, access_token, token_expiry, now, reader, out>>

-----------------------------------------------------------------------------
(* process_sync: the reader, the executor, the collection loop *)

Range(s) == {s[j] : j \in 1..Len(s)}

Min(a, b) == IF a <= b THEN a ELSE b

\* pandas Series.unique(): the distinct values in order of first appearance
RECURSIVE PandasUnique(_)
PandasUnique(s) ==
    IF s = <<>> THEN <<>>
    ELSE LET r == PandasUnique(SubSeq(s, 1, Len(s) - 1))
             x == s[Len(s)]
         IN IF x \in Range(r) THEN r ELSE Append(r, x)

\* polars Series.unique(): the distinct values, in no guaranteed order
PolarsUnique(s) ==
    {p \in [1..Cardinality(Range(s)) -> Range(s)] : Range(p) = Range(s)}

\* The key lists the service's read of the file can produce, by backend.
\*   coleta  lines 260-271: polars unique, pandas unique
\*   isenta  lines 154-164, desc lines 140-150: polars to_list, pandas unique
\*   cancel  lines 234-235, reativa lines 205-206: pandas unique
KeysRead(s, backend, f) ==
    IF backend = "polars"
    THEN IF s = "coleta" THEN PolarsUnique(f)
         ELSE IF s \in {"isenta", "desc"} THEN {f}
         ELSE {}
    ELSE {PandasUnique(f)}

Backends(s) ==
    IF s \in {"coleta", "isenta", "desc"} THEN {"polars", "fallback", "pandas"}
    ELSE {"pandas"}

\* ReadInput without the except clause around the polars read: the polars
\* failure leaves process_sync.
ReadInput_NoFallback ==
    /\ mode = "pool"
    /\ main = "read"
    /\ \/ \E b \in Backends(svc) \ {"fallback"} : \E ks \in KeysRead(svc, b, file) :
            /\ keys' = ks
            /\ reader' = b
            /\ main' = "pool"
       \/ /\ "fallback" \in Backends(svc)
          /\ main' = "raised:read"
          /\ reader' = "fallback"
          /\ UNCHANGED keys
       \/ /\ main' = "raised:read"
          /\ reader' = "failed"
          /\ UNCHANGED keys
    /\ UNCHANGED <<svc, mode, file, max_workers, tasks, got, contratos,
                   access_token, token_expiry, now, wire, out>>

\* ReadInput with the failure of the last read swallowed: process_sync goes
\* on with whatever rows there are.
ReadInput_Swallowed ==
    /\ mode = "pool"
    /\ main = "read"
    /\ \/ \E b \in Backends(svc) : \E ks \in KeysRead(svc, b, file) :
            /\ keys' = ks
            /\ reader' = b
            /\ main' = "pool"
       \/ /\ main' = "pool"
          /\ reader' = "failed"
          /\ keys' = file
    /\ UNCHANGED <<svc, mode, file, max_workers, tasks, got, contratos,
                   access_token, token_expiry, now, wire, out>>

\* The read of the input file.  Both backends failing raises out of
\* process_sync.
ReadInput ==
    /\ mode = "pool"
    /\ main = "read"
    /\ \/ \E b \in Backends(svc) : \E ks \in KeysRead(svc, b, file) :
            /\ keys' = ks
            /\ reader' = b
            /\ main' = "pool"
       \/ /\ main' = "raised:read"
          /\ reader' = "failed"
          /\ UNCHANGED keys
    /\ UNCHANGED <<svc, mode, file, max_workers, tasks, got, contratos,
                   access_token, token_expiry, now, wire, out>>

\* The threads of the executor: min(max_workers, len(keys))
PoolSize == Min(max_workers, Len(keys))

\* ThreadPoolExecutor(max_workers=0) raises ValueError.
CreatePool ==
    /\ main = "pool"
    /\ main' = IF PoolSize = 0 THEN "raised:pool" ELSE "submit"
    /\ UNCHANGED <<svc, mode, file, max_workers, keys, tasks, got, contratos,
                   access_token, token_expiry, now, reader, wire, out>>

\* The futures process_sync creates: one per key (coleta line 278, isenta
\* line 170, desc line 156), or a single one whose argument is the
\* itertuples generator (cancel line 239, reativa line 211).
Futures ==
    IF svc \in {"cancel", "reativa"}
    THEN <<NewTask(1, "generator", "queued")>>
    ELSE [j \in 1..Len(keys) |-> NewTask(keys[j], "row", "queued")]

Submit ==
    /\ main = "submit"
    /\ tasks' = Append(tasks, Futures[Len(tasks) + 1])
    /\ main' = IF Len(tasks) + 1 = Len(Futures) THEN "collect" ELSE "submit"
    /\ UNCHANGED <<svc, mode, file, max_workers, keys, got, contratos,
                   access_token, token_expiry, now, reader, wire, out>>

Running == {u \in DOMAIN tasks : tasks[u].st = "running"}

\* Start with a thread for every submitted work item, however many.
Start_Unbounded(t) ==
    /\ mode = "pool"
    /\ t \in DOMAIN tasks
    /\ tasks[t].st = "queued"
    /\ \A u \in 1..(t - 1) : tasks[u].st # "queued"
    /\ tasks' = [tasks EXCEPT ![t].st = "running"]
    /\ UNCHANGED Others

\* An idle worker thread takes the oldest queued work item.
Start(t) ==
    /\ mode = "pool"
    /\ t \in DOMAIN tasks
    /\ tasks[t].st = "queued"
    /\ \A u \in 1..(t - 1) : tasks[u].st # "queued"
    /\ Cardinality(Running) < PoolSize
    /\ tasks' = [tasks EXCEPT ![t].st = "running"]
    /\ UNCHANGED Others

\* future.result(timeout=30) of the next future, when its task has ended:
\* the returned list extends self.contratos; an exception of the task is
\* caught and logged.
Outcome(how, task) == [how |-> how, logLen |-> Len(task.log), st |-> task.st]

\* Collect that puts the rows of each result in front of the table.
Collect_Prepend ==
    /\ main = "collect"
    /\ LET i == Len(got) + 1
           task == tasks[i]
       IN /\ Finished(task)
          /\ IF task.st = "returned"
             THEN /\ contratos' = task.ret \o contratos
                  /\ got' = Append(got, Outcome("result", task))
             ELSE /\ contratos' = contratos
                  /\ got' = Append(got, Outcome("exception", task))
          /\ main' = IF i = Len(tasks) THEN "shutdown" ELSE "collect"
    /\ UNCHANGED <<svc, mode, file, max_workers, keys, tasks,
                   access_token, token_expiry, now, reader, wire, out>>

Collect ==
    /\ main = "collect"
    /\ LET i == Len(got) + 1
           task == tasks[i]
       IN /\ Finished(task)
          /\ IF task.st = "returned"
             THEN /\ contratos' = contratos \o task.ret
                  /\ got' = Append(got, Outcome("result", task))
             ELSE /\ contratos' = contratos
                  /\ got' = Append(got, Outcome("exception", task))
          /\ main' = IF i = Len(tasks) THEN "shutdown" ELSE "collect"
    /\ UNCHANGED <<svc, mode, file, max_workers, keys, tasks,
                   access_token, token_expiry, now, reader, wire, out>>

\* future.result(timeout=30) raises TimeoutError while the task has not
\* ended; the except clause logs it.  The task itself keeps running, or
\* keeps waiting in the queue when every worker thread is held by a task
\* that has not ended (an idle thread takes a queued item at once).
Timeout ==
    /\ main = "collect"
    /\ LET i == Len(got) + 1
           task == tasks[i]
       IN /\ ~Finished(task)
          /\ task.st = "queued" => Cardinality(Running) = PoolSize
          /\ got' = Append(got, Outcome("timeout", task))
          /\ main' = IF i = Len(tasks) THEN "shutdown" ELSE "collect"
    /\ UNCHANGED <<svc, mode, file, max_workers, keys, tasks, contratos,
                   access_token, token_expiry, now, reader, wire, out>>

\* Shutdown that does not wait for the tasks still executing.
Shutdown_NoWait ==
    /\ main = "shutdown"
    /\ main' = "processed"
    /\ UNCHANGED <<svc, mode, file, max_workers, keys, tasks, got, contratos,
                   access_token, token_expiry, now, reader, wire, out>>

\* Leaving the with block: executor.shutdown(wait=True) returns once every
\* task has ended; process_sync then returns.
Shutdown ==
    /\ main = "shutdown"
    /\ \A u \in DOMAIN tasks : Finished(tasks[u])
    /\ main' = "processed"
    /\ UNCHANGED <<svc, mode, file, max_workers, keys, tasks, got, contratos,
                   access_token, token_expiry, now, reader, wire, out>>

-----------------------------------------------------------------------------
(* save_results / save_result and the except clause of run.  run calls      *)
(* process_sync and then the save method inside one try block (coleta lines *)
(* 378-389, isenta 267-281, desc 215-229, reativa 304-316); MassiveCancel's *)
(* run raises NameError at line 332 (`match match.lower()`), so there the   *)
(* sequence is that of a caller invoking the two methods itself.            *)

\* Nothing written, no warning given.
NoOutput == [written |-> FALSE, schema |-> FALSE, warned |-> FALSE]

\* len(colunas), the declared column list of each save method
Colunas(s) ==
    CASE s = "coleta" -> 12
      [] s = "isenta" -> 4
      [] s = "desc" -> 4
      [] s = "cancel" -> 6
      [] s = "reativa" -> 6

\* The columns of keys the reader can yield: numeric (the keys are ints, on
\* which len() raises TypeError) or text of so many characters.
KeyLens == {3, 4}

\* Whether the first entry of the table is a key from a numeric column:
\* extend() flattened a flat result, whose first element is the key itself
\* (desc line 125).
FirstIsInt(numeric) == contratos[1].t = "str" /\ numeric

\* len(self.contratos[0]): the cells of a row, or the characters of a key.
FirstLen(n) ==
    IF contratos[1].t = "row" THEN Len(contratos[1].c) ELSE n

\* SaveResults without the test for an empty table: the empty frame is
\* written.
SaveResults_NoEmptyCheck ==
    /\ mode = "pool"
    /\ main = "processed"
    /\ IF contratos = <<>>
       THEN /\ out' = [out EXCEPT !.written = TRUE]
            /\ main' = "done"
       ELSE \E numeric \in BOOLEAN, n \in KeyLens :
              IF FirstIsInt(numeric)
                 \/ (contratos[1].t = "str" /\ FirstLen(n) = Colunas(svc))
              THEN /\ main' = "raised:save"
                   /\ out' = out
              ELSE \/ /\ out' = [out EXCEPT !.written = TRUE,
                                            !.schema = (FirstLen(n) = Colunas(svc))]
                      /\ main' = "done"
                   \/ /\ main' = "raised:save"
                      /\ out' = out
    /\ UNCHANGED <<svc, mode, file, max_workers, keys, tasks, got, contratos,
                   access_token, token_expiry, now, reader, wire>>

\* The save method: an empty table gives a warning and nothing else; else the
\* frame gets the declared names only when the first entry is as long as the
\* column list (a flat table with the names is refused by the frame), and
\* the write succeeds or raises.
SaveResults ==
    /\ mode = "pool"
    /\ main = "processed"
    /\ IF contratos = <<>>
       THEN /\ out' = [out EXCEPT !.warned = TRUE]
            /\ main' = "done"
       ELSE \E numeric \in BOOLEAN, n \in KeyLens :
              IF FirstIsInt(numeric)
                 \/ (contratos[1].t = "str" /\ FirstLen(n) = Colunas(svc))
              THEN /\ main' = "raised:save"
                   /\ out' = out
              ELSE \/ /\ out' = [out EXCEPT !.written = TRUE,
                                            !.schema = (FirstLen(n) = Colunas(svc))]
                      /\ main' = "done"
                   \/ /\ main' = "raised:save"
                      /\ out' = out
    /\ UNCHANGED <<svc, mode, file, max_workers, keys, tasks, got, contratos,
                   access_token, token_expiry, now, reader, wire>>

\* The except clause of run: the error is logged and raised again.
RunExcept ==
    /\ mode = "pool"
    /\ main \in {"raised:read", "raised:pool", "raised:save"}
    /\ main' = "run_raised"
    /\ UNCHANGED <<svc, mode, file, max_workers, keys, tasks, got, contratos,
                   access_token, token_expiry, now, reader, wire, out>>

-----------------------------------------------------------------------------
(* Specification *)

InitCall ==
    /\ mode = "call"
    /\ file = <<>>
    /\ max_workers = 1
    /\ main = "none"
    /\ \E k \in KeyIds : tasks = <<NewTask(k, "row", "running")>>

InitPool ==
    /\ mode = "pool"
    /\ file \in SeqsUpTo(KeyIds, MaxRows)
    /\ max_workers \in 1..MaxWorkers
    /\ main = "read"
    /\ tasks = <<>>

Init ==
    /\ svc \in Services
    /\ InitCall \/ InitPool
    /\ keys = <<>>
    /\ got = <<>>
    /\ contratos = <<>>
    /\ access_token = "None"
    /\ token_expiry = 0
    /\ now = DefaultExpiresIn
    /\ reader = "none"
    /\ wire = NoWire
    /\ out = NoOutput

\* The steps of the per-entity methods
NextTask ==
    \/ \E t \in DOMAIN tasks : CancelGetContrato(t)
    \/ \E t \in DOMAIN tasks : CancelGetContratoEquip(t)
    \/ \E t \in DOMAIN tasks : CancelGetNeg(t)
    \/ \E t \in DOMAIN tasks : CancelGetProtocol(t)
    \/ \E t \in DOMAIN tasks : CancelPutContrato(t)
    \/ \E t \in DOMAIN tasks : CancelPutContratoEquip(t)
    \/ \E t \in DOMAIN tasks : CancelPutNeg(t)
    \/ \E t \in DOMAIN tasks : CancelPutProtocol(t)
    \/ \E t \in DOMAIN tasks : ReativaGetContrato(t)
    \/ \E t \in DOMAIN tasks : ReativaGetEquip(t)
    \/ \E t \in DOMAIN tasks : ReativaPutContrato(t)
    \/ \E t \in DOMAIN tasks : ReativaPutEquip(t)
    \/ \E t \in DOMAIN tasks : IsentaGet(t)
    \/ \E t \in DOMAIN tasks : IsentaPut(t)
    \/ \E t \in DOMAIN tasks : DescPut(t)
    \/ \E t \in DOMAIN tasks : ColetaTokenCheck(t)
    \/ \E t \in DOMAIN tasks : ColetaTokenResponse(t)
    \/ \E t \in DOMAIN tasks : ColetaTokenStore(t)
    \/ \E t \in DOMAIN tasks : ColetaGet(t)
    \/ Tick

\* The steps of process_sync and of the executor
NextPool ==
    \/ ReadInput
    \/ CreatePool
    \/ Submit
    \/ \E t \in DOMAIN tasks : Start(t)
    \/ Collect
    \/ Timeout
    \/ Shutdown
    \/ SaveResults
    \/ RunExcept

Next == NextTask \/ NextPool

\* One run of process_sync, or one invocation of the per-entity method
Spec == Init /\ [][Next]_vars

\* One invocation of the per-entity method on a well-formed argument
\* A run under fair scheduling: a worker thread that can take a step takes
\* it, every remote call ends (it answers or its timeout=10 expires), and
\* the thread of process_sync and run goes on when it can.
SpecLive == Init /\ [][Next]_vars /\ WF_vars(NextTask) /\ WF_vars(NextPool)

InitMethod == Init /\ mode = "call"
SpecCall == InitMethod /\ [][NextTask]_vars

\* One call of _make_request
InitRequest ==
    /\ svc \in Services
    /\ mode = "request"
    /\ file = <<>>
    /\ max_workers = 1
    /\ main = "none"
    /\ keys = <<>>
    /\ tasks = <<>>
    /\ got = <<>>
    /\ contratos = <<>>
    /\ access_token = "None"
    /\ token_expiry = 0
    /\ now = DefaultExpiresIn
    /\ reader = "none"
    /\ wire \in Requests(svc)
    /\ out = NoOutput

NextRequest == RequestBegin \/ RequestRetry \/ RequestReturn

SpecRequest == InitRequest /\ [][NextRequest]_vars

-----------------------------------------------------------------------------
(* Properties *)

Tasks == {tasks[t] : t \in DOMAIN tasks}

Calls(task, m, ep) == {j \in DOMAIN task.log : task.log[j].m = m /\ task.log[j].ep = ep}

\* A request the remote did not accept: no response, or an error status.
Refused(task, m, ep) == {j \in Calls(task, m, ep) : ~task.log[j].ok}

Cell(task, c) == task.ret[c].c[1]

\* The cell of a table row that holds the key, and the text of a key there.
KeyCell(e) == IF svc = "coleta" THEN e.c[2] ELSE e.c[1]
KeyText(k) == IF svc = "coleta" THEN Cnpj14[k] ELSE KeyName[k]
OutcomesOf(k) == {j \in DOMAIN contratos : KeyCell(contratos[j]) = KeyText(k)}

\* C1 (as claimed): once process_sync has returned on a non-empty key list,
\* every key read has its outcome in the result table: as many outcomes were
\* collected as keys were read, and each key has rows in self.contratos.
C1_NoKeyLoss ==
    (svc \in {"coleta", "isenta"} /\ main = "processed" /\ keys # <<>>) =>
        /\ Cardinality({i \in DOMAIN got : got[i].how = "result"}) = Len(keys)
        /\ \A i \in DOMAIN keys : OutcomesOf(keys[i]) # {}

\* The fetch stage of an endpoint of the cancel workflow.
CancelStage(ep) ==
    CASE ep = "contrato" -> 1
      [] ep = "contrato_equip" -> 2
      [] ep = "neg" -> 3
      [] ep = "protocol" -> 4

\* The status columns after that of the fetch logged at j read "---".
SkippedAfter(task, j) ==
    IF svc = "cancel"
    THEN \A c \in (3 + CancelStage(task.log[j].ep))..6 : Cell(task, c) = "---"
    ELSE IF svc = "reativa"
    THEN \A c \in 5..6 : Cell(task, c) = "---"
    ELSE TRUE

\* C2 (as claimed): a fetch that came back empty, missing or failed is the
\* last remote call of its entity, and the returned row reports every later
\* stage as skipped.
C2_ShortCircuit ==
    \A task \in Tasks : \A j \in DOMAIN task.log :
        (task.log[j].m = "GET" /\ task.log[j].falsy) =>
            /\ j = Len(task.log)
            /\ task.st = "returned" => SkippedAfter(task, j)

\* C3 (as claimed): a fetched collection without a matching item ends the
\* pipeline with a row: no mutation stage is entered with new_contrato or
\* new_equip unassigned, and no task dies of an unassigned local.
C3_NoMatchHandled ==
    \A task \in Tasks :
        /\ task.exc # "UnboundLocalError"
        /\ (svc = "cancel" /\ task.pc \in {"put_contrato", "put_contrato_equip"})
              => {"new_contrato", "new_equip"} \subseteq task.loc.bound

\* The task has issued a PUT of a fan-out stage.
FanOutEntered(task) == Calls(task, "PUT", "neg") \cup Calls(task, "PUT", "protocol") # {}

\* C4: in the fan-out stages of the cancel and exemption workflows every
\* item gets its PUT whatever the answers to the PUTs of the items before
\* it, and a task that entered a fan-out stage ends by returning its rows.
C4_FanOutIndependence ==
    \A task \in Tasks :
        svc \in {"cancel", "isenta"} =>
            /\ (task.st = "running" /\ task.pc \in {"put_neg", "put"})
                  => Cardinality(Calls(task, "PUT", "neg")) = task.loc.i - 1
            /\ (task.st = "running" /\ task.pc = "put_protocol")
                  => /\ Cardinality(Calls(task, "PUT", "neg")) = Len(task.loc.l1)
                     /\ Cardinality(Calls(task, "PUT", "protocol")) = task.loc.i - 1
            /\ (Finished(task) /\ FanOutEntered(task))
                  => /\ task.st = "returned"
                     /\ task.ret # <<>>
                     /\ Cardinality(Calls(task, "PUT", "neg")) = Len(task.loc.l1)
                     /\ Cardinality(Calls(task, "PUT", "protocol")) = Len(task.loc.l2)

\* C4's case: a cancel task returned after the PUT of its first negotiation
\* was refused and the PUT of its second negotiation was made all the same.
C4_Witness ==
    \E task \in Tasks :
        /\ svc = "cancel"
        /\ task.st = "returned"
        /\ Len(task.loc.l1) = 2
        /\ \E j \in Refused(task, "PUT", "neg") :
              \E n \in Calls(task, "PUT", "neg") : n > j

\* C5 (as claimed): a cancel row does not report a fan-out stage as updated
\* when the PUT of one of its items was refused.
C5_FanOutFailureRecorded ==
    \A task \in Tasks :
        (svc = "cancel" /\ task.st = "returned") =>
            /\ Refused(task, "PUT", "neg") # {} => Cell(task, 5) # "Atualizado"
            /\ Refused(task, "PUT", "protocol") # {} => Cell(task, 6) # "Atualizado"

\* C6 (as claimed): a refused structural PUT is the entity's last call, its
\* stage is reported failed and every later stage is reported skipped.
C6_StructuralFailureHalts ==
    \A task \in Tasks :
        task.st = "returned" =>
            /\ svc = "cancel" =>
                 /\ \A j \in Refused(task, "PUT", "contrato") :
                       /\ j = Len(task.log)
                       /\ Cell(task, 3) = "Erro ao atualizar"
                       /\ \A c \in 4..6 : Cell(task, c) = "---"
                 /\ \A j \in Refused(task, "PUT", "contrato_equip") :
                       /\ j = Len(task.log)
                       /\ Cell(task, 4) = "Erro ao atualizar"
                       /\ \A c \in 5..6 : Cell(task, c) = "---"
            /\ svc = "reativa" =>
                 /\ \A j \in Refused(task, "PUT", "contrato") :
                       /\ j = Len(task.log)
                       /\ Cell(task, 5) = "nok"
                       /\ Cell(task, 6) = "---"
                 /\ \A j \in Refused(task, "PUT", "equip") :
                       /\ j = Len(task.log)
                       /\ Cell(task, 6) = "nok"

\* C7 (as claimed): _process_contract of the exemption and descredenciamento
\* workflows ends by returning a non-empty outcome, never by raising.
C7_AlwaysReturns ==
    \A task \in Tasks :
        (svc \in {"isenta", "desc"} /\ Finished(task)) =>
            task.st = "returned" /\ task.ret # <<>>

\* C8 (as claimed): when future.result times out, a row for that future's
\* key is appended to self.contratos.
C8_TimeoutOutcome ==
    [][(Len(got') = Len(got) + 1 /\ got'[Len(got')].how = "timeout") =>
          /\ Len(contratos') = Len(contratos) + 1
          /\ KeyCell(contratos'[Len(contratos')]) = KeyText(tasks[Len(got')].key)]_vars

\* The cache holds a token whose expiry lies ahead.
CacheValid == TruthyToken(access_token) /\ token_expiry # 0 /\ now < token_expiry

\* Requests to the token endpoint so far: answered ones and those in flight.
InFlight == {t \in DOMAIN tasks : tasks[t].st = "running" /\ tasks[t].pc = "tok_wait"}
TokenCalls ==
    Cardinality({<<t, j>> \in (DOMAIN tasks) \X (1..(2 * MaxItems + 8)) :
                    j \in Calls(tasks[t], "POST", "token")})
    + Cardinality(InFlight)

\* C9 (as claimed): a call of _get_access_token made while the cached token
\* has not expired returns the cached token (the caller goes on to its
\* request) and makes no request to the token endpoint.
C9_TokenReuse ==
    [][\A t \in DOMAIN tasks :
          (/\ CacheValid
           /\ tasks[t].st = "running"
           /\ tasks[t].pc \in {"start", "token"}
           /\ tasks'[t] # tasks[t])
          => (tasks'[t].pc = "get" /\ TokenCalls' = TokenCalls)]_vars

\* C10 (as claimed): at most one request to the token endpoint is in flight.
C10_Singleflight == Cardinality(InFlight) <= 1

\* The task's request to the token endpoint is answered in this step, and
\* the answer yields no usable token: an error status, no decodable object,
\* or an object without access_token.
RefreshFails(t) ==
    /\ svc = "coleta"
    /\ tasks[t].st = "running"
    /\ tasks[t].pc = "tok_wait"
    /\ tasks'[t] # tasks[t]
    /\ ~(tasks'[t].pc = "tok_store" /\ TruthyToken(access_token'))

\* The task finishes a refresh that obtained no usable token.
RefreshFailed(t) ==
    /\ svc = "coleta"
    /\ tasks[t].st = "running"
    /\ tasks[t].pc = "tok_store"
    /\ ~TruthyToken(access_token)
    /\ tasks'[t] # tasks[t]

\* C11 (as claimed): a refresh that obtains no usable token ends in an error
\* and leaves _access_token and _token_expiry as they were: neither the
\* answer nor the completion of a failed refresh writes the cache.
C11_FailedRefreshCachesNothing ==
    [][\A t \in DOMAIN tasks :
          /\ RefreshFails(t) =>
                /\ access_token' = access_token
                /\ token_expiry' = token_expiry
          /\ RefreshFailed(t) =>
                /\ token_expiry' = token_expiry
                /\ tasks'[t].st = "raised"]_vars

\* The task ended in _get_headers' ValueError: no token could be obtained.
AuthFailed(task) == svc = "coleta" /\ task.st = "raised" /\ task.exc = "ValueError"

\* C12 (as claimed): a task's failure to obtain a token is not swallowed by
\* the collecting loop as one entity's error, and process_sync does not
\* return normally to run() after it.
C12_AuthFailureAborts ==
    /\ \A i \in DOMAIN got : got[i].how = "exception" => ~AuthFailed(tasks[i])
    /\ main = "processed" => \A task \in Tasks : ~AuthFailed(task)

\* The task enters _get_access_token while a token and an expiry are cached.
CalledWithCache(t) ==
    /\ svc = "coleta"
    /\ tasks[t].st = "running"
    /\ tasks[t].pc \in {"start", "token"}
    /\ TruthyToken(access_token)
    /\ token_expiry # 0
    /\ tasks'[t] # tasks[t]

\* C13 (as claimed): a call of _get_access_token made with a token cached
\* returns the cached token when the expiry lies ahead and starts a refresh
\* when it has passed; it does not fail.
C13_CredentialExpiry ==
    [][\A t \in DOMAIN tasks :
          CalledWithCache(t) =>
             /\ tasks'[t].st = "running"
             /\ now < token_expiry => tasks'[t].pc = "get"
             /\ now >= token_expiry => tasks'[t].pc = "tok_wait"]_vars

\* The call has returned after transient errors within the retry budget
\* followed by a 200 with a decodable body.
TransientThenOk(w) ==
    /\ w.st = "returned"
    /\ w.k \in 1..RetryTotal
    /\ w.final.status = 200
    /\ w.final.body.kind # "undecodable"

\* C14 (as claimed): a GET or PUT answered 503 on k <= 3 attempts and then
\* 200 makes _make_request return the decoded body.
C14_RetryAbsorbsTransient ==
    (mode = "request" /\ TransientThenOk(wire)) => wire.value = wire.final.body

\* The task's last remote call was a fetch that failed: no response within
\* the retries or the timeout, or an error status.
FetchFailedLast(task) ==
    /\ task.log # <<>>
    /\ task.log[Len(task.log)].m = "GET"
    /\ ~task.log[Len(task.log)].ok

\* What the returned row says about the stage of the task's last call.
StageText(task) ==
    IF svc = "cancel" THEN Cell(task, 2 + CancelStage(task.log[Len(task.log)].ep))
    ELSE IF task.log[Len(task.log)].ep = "cnpj" THEN task.ret[1].c[1]
    ELSE task.ret[1].c[4]

\* What the rows say about a stage whose fetch succeeded and found nothing.
NotFoundTexts == {"Nao localizado.", "Nao localizado", NL}

\* C15 (as claimed): a fetch that failed ends its entity with a row whose
\* stage text is not the one used for a fetch that succeeded without data.
C15_FailedDistinctFromNotFound ==
    \A task \in Tasks :
        (svc \in {"cancel", "coleta"} /\ Finished(task) /\ FetchFailedLast(task)) =>
            /\ task.st = "returned"
            /\ StageText(task) \notin NotFoundTexts

\* C16 (as claimed): whatever the transport and the token do, a call of
\* _make_request ends by returning a value, not by raising.
C16_ClientNeverThrows ==
    mode = "request" => (wire.st # "raised" /\ wire.exc = "")

\* The call has returned on a 204 answer.
Returned204(w) == w.st = "returned" /\ w.sent >= w.k /\ w.final.status = 204

\* What _make_request returns for a 200 whose body is {}, and on a failure.
ValueOfEmptyObject == MakeRequest([status |-> 200, body |-> EmptyDict])
ValueOfFailure == MakeRequest([status |-> 0, body |-> None])

\* C17 (as claimed): the value _make_request returns for a 204 is neither
\* the value it returns for a 200 with body {} nor the one it returns on
\* failure.
C17_Sentinel204 ==
    (mode = "request" /\ Returned204(wire)) =>
        /\ wire.value # ValueOfEmptyObject
        /\ wire.value # ValueOfFailure

\* The PUTs of an endpoint that the remote answered with 204.
Accepted204(task, ep) == {j \in Calls(task, "PUT", ep) : task.log[j].nc}

\* C18 (as claimed): a PUT answered 204 is not reported as an update error:
\* the cancel row does not say "Erro ao atualizar" for that stage, the
\* descredenciamento row does not say "Erro ao solicitar cancelamento.",
\* and the exemption rows hold no "Nao alterado." when every PUT got a 204.
C18_NoContentAccepted ==
    \A task \in Tasks :
        task.st = "returned" =>
            /\ (svc = "cancel" /\ Accepted204(task, "contrato") # {})
                  => Cell(task, 3) # "Erro ao atualizar"
            /\ (svc = "cancel" /\ Accepted204(task, "contrato_equip") # {})
                  => Cell(task, 4) # "Erro ao atualizar"
            /\ (svc = "desc" /\ Accepted204(task, "desc") # {})
                  => Cell(task, 2) # "Erro ao solicitar cancelamento."
            /\ (svc = "isenta" /\ Calls(task, "PUT", "neg") # {}
                               /\ Accepted204(task, "neg") = Calls(task, "PUT", "neg"))
                  => \A r \in DOMAIN task.ret : task.ret[r].c[4] # "Nao alterado."

\* C19 (as claimed): whichever reader produced it, the key list holds every
\* distinct value of the key column exactly once.
C19_Dedup ==
    (svc \in {"isenta", "desc", "coleta"} /\ mode = "pool"
        /\ reader \in {"polars", "fallback", "pandas"}) =>
        /\ Range(keys) = Range(file)
        /\ \A i, j \in DOMAIN keys : keys[i] = keys[j] => i = j

\* Every future has been submitted.
Submitted == mode = "pool" /\ main \in {"collect", "shutdown", "processed"}

\* C20 (as claimed): process_sync of the cancel and reactivation services
\* submits one task per distinct key of the input, each with a single row
\* as its argument.
C20_OneTaskPerKey ==
    (svc \in {"cancel", "reativa"} /\ Submitted) =>
        /\ Len(tasks) = Cardinality(Range(file))
        /\ \A t \in DOMAIN tasks : tasks[t].argKind = "row"
        /\ {tasks[t].key : t \in DOMAIN tasks} = Range(file)

-----------------------------------------------------------------------------
\* C21  Reader fallback: when the polars read fails and the pandas read
\* succeeds (the except clause, which logs the failure, has run), process_sync
\* goes on to the executor with the keys pandas read; the read does not
\* raise.
C21_ReaderFallback ==
    [][(reader = "none" /\ reader' = "fallback") =>
          /\ main' = "pool"
          /\ keys' = PandasUnique(file)]_vars

\* A run that fell back to pandas, processed its keys and wrote its table.
C21_Witness ==
    /\ reader = "fallback"
    /\ keys # <<>>
    /\ main = "done"
    /\ out.written

-----------------------------------------------------------------------------
\* C22  Bad input aborts before any work: when the input cannot be read
\* (missing path, unreadable file, no key column: every read raises), the
\* run ends with that error raised, no task was ever submitted, so no remote
\* call was issued, and no output file was written.
C22_BadInputAborts ==
    reader = "failed" =>
        /\ main \in {"raised:read", "run_raised"}
        /\ tasks = <<>>
        /\ keys = <<>>
        /\ ~out.written

\* The run of a service whose input could not be read, after run re-raised.
C22_Witness ==
    /\ reader = "failed"
    /\ main = "run_raised"
    /\ file # <<>>

-----------------------------------------------------------------------------
\* C23  Bounded parallelism: in every state of a run of process_sync the
\* tasks that are executing are at most min(max_workers, number of keys).
C23_BoundedParallelism ==
    mode = "pool" => Cardinality(Running) <= Min(max_workers, Len(keys))

\* One worker for two keys: one task executes while the other waits in the
\* queue.
C23_Witness ==
    /\ mode = "pool"
    /\ max_workers = 1
    /\ Len(keys) = 2
    /\ \E t, u \in DOMAIN tasks : tasks[t].st = "running" /\ tasks[u].st = "queued"

-----------------------------------------------------------------------------
\* C24  Per-entity failure isolation: a timeout or an exception in one key's
\* task does not cancel or skip another key's task.  When process_sync
\* returns every submitted task has run to its end and every future was
\* waited on, and a task is given up on only while its own pipeline is
\* executing, never while it waits in the queue behind another key's task.
C24_FailureIsolation ==
    mode = "pool" =>
        /\ main = "processed" =>
              /\ Len(got) = Len(tasks)
              /\ \A u \in DOMAIN tasks : Finished(tasks[u])
        /\ \A j \in DOMAIN got :
              got[j].how = "timeout" => got[j].st = "running"

-----------------------------------------------------------------------------
\* C25  Timeout aborts the entity's pipeline: once future.result has given up
\* on a key by timeout, the key's task issues no further remote call: its
\* calls are those it had made when it was given up on.
C25_TimeoutAbortsPipeline ==
    mode = "pool" =>
        \A i \in DOMAIN got :
            got[i].how = "timeout" => Len(tasks[i].log) = got[i].logLen

-----------------------------------------------------------------------------
\* C26  One row per outcome with the declared width: in the services whose
\* task returns one outcome (cancel, reativa, desc), the table holds exactly
\* one entry per collected result, and each entry is a row with as many cells
\* as the declared column list.
Results == {i \in DOMAIN got : got[i].how = "result"}

C26_OneRowPerOutcome ==
    (mode = "pool" /\ svc \in {"cancel", "reativa", "desc"}) =>
        /\ Len(contratos) = Cardinality(Results)
        /\ \A r \in DOMAIN contratos :
              /\ contratos[r].t = "row"
              /\ Len(contratos[r].c) = Colunas(svc)

-----------------------------------------------------------------------------
\* C27  Schema-aligned output: whenever the table is written it carries the
\* declared column names as header, whatever the width of its first entry.
C27_SchemaAligned ==
    out.written => out.schema

-----------------------------------------------------------------------------
\* C28  Empty table is a no-op: the save method called on an empty table
\* writes no file, raises no error and gives a warning.
C28_EmptyTableNoOp ==
    [][(main = "processed" /\ main' # "processed" /\ contratos = <<>>) =>
          /\ main' = "done"
          /\ out'.warned
          /\ ~out'.written]_vars

\* A run whose tasks all failed: the save method has returned with the
\* warning given and nothing written.
C28_Witness ==
    /\ main = "done"
    /\ contratos = <<>>
    /\ tasks # <<>>
    /\ out.warned
    /\ ~out.written

-----------------------------------------------------------------------------
\* C29  Write after the batch: the save method has acted (a file written, a
\* warning given, or the write raised) only when every submitted task has
\* ended and every future was collected or given up on.
C29_WriteAfterBatch ==
    (mode = "pool" /\ (out # NoOutput \/ main = "raised:save")) =>
        /\ Len(got) = Len(tasks)
        /\ \A u \in DOMAIN tasks : Finished(tasks[u])

\* The write raised after a batch in which one key was given up on and
\* another gave its result.
C29_Witness ==
    /\ main = "raised:save"
    /\ \E i, j \in DOMAIN got : got[i].how = "timeout" /\ got[j].how = "result"

-----------------------------------------------------------------------------
\* C30  Reported progress matches the calls made: in the reactivation
\* pipeline, a returned row whose contract PUT was accepted and whose
\* equipment PUT failed reports the contract stage as updated ("ok") and the
\* equipment stage as failed ("nok").
PutTaken(task, ep) ==
    {j \in Calls(task, "PUT", ep) : task.log[j].ok /\ ~task.log[j].falsy}

PutFailed(task, ep) == {j \in Calls(task, "PUT", ep) : task.log[j].falsy}

C30_ProgressMatchesCalls ==
    svc = "reativa" =>
        \A task \in Tasks :
            (/\ task.st = "returned"
             /\ PutTaken(task, "contrato") # {}
             /\ PutFailed(task, "equip") # {}) =>
                /\ Cell(task, 5) = "ok"
                /\ Cell(task, 6) = "nok"

-----------------------------------------------------------------------------
\* C31  Stage order without re-execution (cancel workflow): the remote calls
\* of one entity are issued in the declared stage order (the four fetches,
\* the contract PUT, the equipment PUT, the negotiation PUTs, the protocol
\* PUTs) and the call of a structural stage is issued at most once.
CancelStages ==
    <<[m |-> "GET", ep |-> "contrato"], [m |-> "GET", ep |-> "contrato_equip"],
      [m |-> "GET", ep |-> "neg"], [m |-> "GET", ep |-> "protocol"],
      [m |-> "PUT", ep |-> "contrato"], [m |-> "PUT", ep |-> "contrato_equip"],
      [m |-> "PUT", ep |-> "neg"], [m |-> "PUT", ep |-> "protocol"]>>

\* The position of a call in the declared order.
StageRank(call) ==
    CHOOSE r \in DOMAIN CancelStages :
        CancelStages[r].m = call.m /\ CancelStages[r].ep = call.ep

\* The structural stages: every one but the two fan-out loops.
Structural(r) == r <= 6

C31_StageOrder ==
    svc = "cancel" =>
        \A task \in Tasks : \A i, j \in DOMAIN task.log :
            i < j =>
               /\ StageRank(task.log[i]) <= StageRank(task.log[j])
               /\ Structural(StageRank(task.log[i])) =>
                     StageRank(task.log[i]) < StageRank(task.log[j])

\* A cancel pipeline that went through every stage, both loops included.
C31_Witness ==
    /\ svc = "cancel"
    /\ \E task \in Tasks :
          /\ task.st = "returned"
          /\ \A r \in DOMAIN CancelStages :
                Calls(task, CancelStages[r].m, CancelStages[r].ep) # {}
          /\ Cardinality(Calls(task, "PUT", "neg")) = 2

-----------------------------------------------------------------------------
\* C32  Input-order results: the rows of the result table follow the order of
\* the key list handed to the pool: the rows can be assigned to positions of
\* the key list, each to a position holding its key, without ever going
\* back.
InKeyOrder ==
    \E f \in [DOMAIN contratos -> DOMAIN keys] :
        /\ \A r \in DOMAIN contratos : KeyCell(contratos[r]) = KeyText(keys[f[r]])
        /\ \A r, q \in DOMAIN contratos : r < q => f[r] <= f[q]

-----------------------------------------------------------------------------
\* C33  Single writer of the result table: the table changes only in the
\* collecting step of process_sync, which leaves every task as it is and
\* appends, after the rows already there, the list returned by the task of
\* the future it waited on; no step of a worker changes the table.
C33_SingleWriter ==
    [][contratos' # contratos =>
          /\ main = "collect"
          /\ tasks' = tasks
          /\ tasks[Len(got) + 1].st = "returned"
          /\ contratos' = contratos \o tasks[Len(got) + 1].ret]_vars

\* Rows of the first key are in the table while the task of the second key
\* is still making its calls.
C33_Witness ==
    /\ mode = "pool"
    /\ svc = "coleta"
    /\ main = "collect"
    /\ Len(got) = 1
    /\ contratos # <<>>
    /\ tasks[2].st = "running"
    /\ tasks[2].log # <<>>

-----------------------------------------------------------------------------
\* C34  Run to completion: under fair scheduling, once process_sync has read
\* its key list, whatever its length, it eventually returns with every
\* submitted task ended and the save method is then invoked.
C34_RunToCompletion ==
    (mode = "pool" /\ main = "pool") ~>
        (/\ main \in {"done", "raised:save"}
         /\ Len(got) = Len(tasks)
         /\ \A u \in DOMAIN tasks : Finished(tasks[u]))

-----------------------------------------------------------------------------
\* C35  No mutation before full identification (cancel workflow): a task
\* that has issued a PUT has made each of the four fetches (contract,
\* contract equipment, negotiations, protocols) and each of them returned a
\* non-empty result; a task with an empty or failed fetch has issued no PUT.
C35_NoPutBeforeIdentification ==
    svc = "cancel" =>
        \A task \in Tasks :
            (\E j \in DOMAIN task.log : task.log[j].m = "PUT") =>
                \A r \in 1..4 :
                    /\ Calls(task, "GET", CancelStages[r].ep) # {}
                    /\ \A j \in Calls(task, "GET", CancelStages[r].ep) :
                          ~task.log[j].falsy

\* A cancel task that sent its contract PUT after four fetches with results.
C35_Witness ==
    /\ svc = "cancel"
    /\ \E task \in Tasks :
          /\ Calls(task, "PUT", "contrato") # {}
          /\ Cardinality({j \in DOMAIN task.log : task.log[j].m = "GET"}) = 4

-----------------------------------------------------------------------------
\* C36  One row per negotiation (exemption workflow): a task that has ended
\* has returned; with N negotiations fetched it made N PUTs and returned N
\* rows, the row of a negotiation saying "Alterado." when its PUT gave a
\* result and "Nao alterado." when it did not; with no negotiation found it
\* made no PUT and returned the single not-found row.
C36_OneRowPerNegotiation ==
    svc = "isenta" =>
        \A task \in Tasks :
            Finished(task) =>
                /\ task.st = "returned"
                /\ IF Calls(task, "PUT", "neg") = {}
                   THEN /\ Len(task.ret) = 1
                        /\ task.ret[1].c[2] = "Nao localizado negociacoes."
                   ELSE /\ Len(task.ret) = Len(task.log) - 1
                        /\ \A j \in DOMAIN task.ret :
                              task.ret[j].c[4] =
                                 IF task.log[j + 1].falsy THEN "Nao alterado."
                                 ELSE "Alterado."

-----------------------------------------------------------------------------
\* C37  No unauthenticated API call (collect workflow): a task sends a GET
\* only from the point it reaches with the headers built, it reaches that
\* point only from _get_access_token returning a non-empty token, right after
\* its own POST to the token endpoint was answered, and the cached token is
\* only ever what the token endpoint returned.
SendsGet(t) ==
    /\ Len(tasks'[t].log) = Len(tasks[t].log) + 1
    /\ tasks'[t].log[Len(tasks'[t].log)].m = "GET"

C37_NoUnauthenticatedCall ==
    [][svc = "coleta" =>
          /\ \A t \in DOMAIN tasks :
                /\ SendsGet(t) => tasks[t].pc = "get"
                /\ (tasks'[t].pc = "get" /\ tasks[t].pc # "get") =>
                      /\ tasks[t].pc = "tok_store"
                      /\ TruthyToken(access_token)
                      /\ tasks[t].log[Len(tasks[t].log)].m = "POST"
                      /\ tasks[t].log[Len(tasks[t].log)].ok
          /\ access_token' # access_token =>
                \E t \in DOMAIN tasks : \E resp \in TokenResponses :
                    /\ tasks[t].pc = "tok_wait"
                    /\ TokenAnswer(resp) = "store"
                    /\ access_token' = TokenOf(resp)]_vars

\* Two workers of one run: one has sent its GET with the token it was given
\* while the other's refresh has left the cache without a token.
C37_Witness ==
    /\ svc = "coleta"
    /\ mode = "pool"
    /\ ~TruthyToken(access_token)
    /\ \E t, u \in DOMAIN tasks :
          /\ Calls(tasks[t], "GET", "cnpj") # {}
          /\ tasks[u].st = "raised"
          /\ tasks[u].exc = "ValueError"

-----------------------------------------------------------------------------
\* C38  Empty key set: when the input file yields zero keys, the run issues
\* no remote call, leaves the table empty, writes no file and does not end
\* with an exception.
C38_EmptyKeySet ==
    (/\ mode = "pool"
     /\ reader \in {"polars", "fallback", "pandas"}
     /\ keys = <<>>) =>
        /\ tasks = <<>>
        /\ contratos = <<>>
        /\ ~out.written
        /\ main \notin {"raised:pool", "run_raised"}

=============================================================================
